---- MODULE Spec2Model ----
(***************************************************************************)
(* A model of hutch_python/namespace.py: class_namespace (type-filtered    *)
(* namespace with memoized discovery of sub-devices) and tree_namespace    *)
(* (namespace tree built from underscore-split names).                     *)
(***************************************************************************)
EXTENDS Integers, Sequences, FiniteSets, TLC

VARIABLES
    \* ---- class_namespace ----
    classes,      \* component declarations of the Device classes (input)
    cls,          \* the cls argument: [str |-> BOOLEAN, val |-> name]
    scope_objs,   \* extract_objs(scope): sequence of [name, obj] (ordered dict)
    pc,           \* position in class_namespace
    idx,          \* index of the next item of scope_objs.items()
    cache,        \* the memo dict of inspect_device_cls
    class_space,  \* the IterableNamespace being filled: name -> obj
    exc,          \* the exception that left class_namespace, or "none"
    \* ---- tree_namespace ----
    objs,         \* the objs argument: sequence of [name, obj] (ordered dict)
    heap,         \* the attributes of every object: id -> (key -> value id)
    tree_dict,    \* the nested defaultdict: nodes in insertion order, '_obj's
    tpc,          \* position in tree_namespace
    item,         \* index of the next item of objs.items()
    stack,        \* the active calls of unpack_node: [path, obj, keys]
    unpacked,     \* the value each finished unpack_node call returned
    log,          \* the warnings logged by this call
    tree_space,   \* the namespace tree_namespace returns, or "none"
    nsCount,      \* the number of IterableNamespace objects created so far
    run,          \* 1 for the first call on objs, 2 for the second
    first         \* the result of the first call: [root, heap]

cvars == <<classes, cls, scope_objs, pc, idx, cache, class_space, exc>>
tvars == <<objs, heap, tree_dict, tpc, item, stack, unpacked, log, tree_space,
           nsCount, run, first>>
vars == <<cvars, tvars>>

-----------------------------------------------------------------------------
(* Bounds *)
MaxScope == 2
RecursionLimit == 4
MaxNames == 2

-----------------------------------------------------------------------------
(* The type universe: ophyd.Device, two Device subclasses, a signal class  *)
(* with a subclass, and the type of plain functions.                       *)
Device == "Device"
DeviceClasses == {"DevA", "DevB"}
SlotClasses == {"Sig", "SubSig", "DevA", "DevB"}

Base(c) ==
    CASE c = "SubSig" -> "Sig"
      [] c \in DeviceClasses -> "Device"
      [] OTHER -> "object"

RECURSIVE issubclass(_, _)
issubclass(c, d) ==
    IF c = d THEN TRUE
    ELSE IF c = "object" THEN FALSE
    ELSE issubclass(Base(c), d)

isinstance(obj, d) == issubclass(obj.cls, d)

isfunction(obj) == obj.cls = "function"

(* A component declaration: the attribute name, and the Component's cls and *)
(* lazy attributes; hascls is hasattr(cpt, 'cls').                          *)
Slot(n, c, l, h) == [name |-> n, cls |-> c, lazy |-> l, hascls |-> h]

SlotOptions(n) ==
    {Slot(n, c, l, TRUE) : c \in SlotClasses, l \in BOOLEAN}
        \cup {Slot(n, "object", FALSE, FALSE)}

SecondSlotOptions(n) ==
    {Slot(n, c, l, TRUE) : c \in {"SubSig", "DevB"}, l \in BOOLEAN}

ClassGraphs ==
    {[DevA |-> <<x>>, DevB |-> <<bx>>] :
        x \in SlotOptions("x"), bx \in SlotOptions("x")}
    \cup
    {[DevA |-> <<x, y>>, DevB |-> <<bx>>] :
        x \in SlotOptions("x"), y \in SecondSlotOptions("y"),
        bx \in SlotOptions("x")}

component_names(g, c) == IF c \in DOMAIN g THEN g[c] ELSE <<>>

(* Objects: a class, the object's own name attribute, and an identity.     *)
Obj(c, n, i) == [cls |-> c, name |-> n, id |-> i]

SlotNamed(g, c, attr) ==
    LET s == component_names(g, c)
    IN  s[CHOOSE i \in 1..Len(s) : s[i].name = attr]

HasSlot(g, c, attr) ==
    \E i \in 1..Len(component_names(g, c)) : component_names(g, c)[i].name = attr

(* getattr(device, attr) for a component: the instance of the Component's  *)
(* cls, named <parent name>_<attr> as ophyd names sub-devices.             *)
getattr_cpt(g, device, attr) ==
    Obj(SlotNamed(g, device.cls, attr).cls,
        device.name \o "_" \o attr,
        device.id \o "." \o attr)

-----------------------------------------------------------------------------
(* find_class: a dotted path to a class, or an exception.                  *)
KnownPaths == {"pkg.Sig", "pkg.DevB"}
find_class_ok(path) == path \in KnownPaths
find_class(path) == IF path = "pkg.Sig" THEN "Sig" ELSE "DevB"

Targets ==
    {[str |-> FALSE, val |-> t] : t \in {"Sig", "SubSig", "Device", "DevB"}}
    \cup {[str |-> TRUE, val |-> s] : s \in {"function", "pkg.Sig", "pkg.Missing"}}

-----------------------------------------------------------------------------
(* inspect_device_cls(device_cls, desired_cls, cache): the list of attr    *)
(* paths, the cache afterwards, and the exception raised if any.           *)
Result(a, c, e) == [attrs |-> a, cache |-> c, err |-> e]

Store(c, k, v) == [x \in DOMAIN c \cup {k} |-> IF x = k THEN v ELSE c[x]]

Prefixed(name, subattrs) == [i \in 1..Len(subattrs) |-> <<name>> \o subattrs[i]]

(* Line 72: hasattr(cpt, 'cls') and not cpt.lazy.                          *)
cpt_selected_lazy_too(cpt) == cpt.hascls

cpt_selected(cpt) == cpt.hascls /\ ~cpt.lazy

(* Line 73: issubclass(cpt.cls, desired_cls).                              *)
cpt_matches_any(cpt, desired_cls) == TRUE

cpt_matches(cpt, desired_cls) == issubclass(cpt.cls, desired_cls.val)

RECURSIVE inspect_device_cls(_, _, _, _, _)
RECURSIVE inspect_cpts(_, _, _, _, _, _, _)

inspect_cpts(g, device_cls, i, desired_cls, c, attrs, depth) ==
    IF i > Len(component_names(g, device_cls)) THEN Result(attrs, c, "none")
    ELSE
      LET cpt == component_names(g, device_cls)[i]
      IN  IF ~cpt_selected(cpt)
          THEN inspect_cpts(g, device_cls, i + 1, desired_cls, c, attrs, depth)
          ELSE IF desired_cls.str
          THEN Result(attrs, c, "TypeError")
          ELSE
            LET own == IF cpt_matches(cpt, desired_cls)
                       THEN <<<<cpt.name>>>> ELSE <<>>
                sub == inspect_device_cls(g, cpt.cls, desired_cls, c, depth + 1)
            IN  IF sub.err # "none" THEN Result(attrs, sub.cache, sub.err)
                ELSE inspect_cpts(g, device_cls, i + 1, desired_cls, sub.cache,
                                  attrs \o own \o Prefixed(cpt.name, sub.attrs),
                                  depth)

inspect_device_cls(g, device_cls, desired_cls, c, depth) ==
    IF depth > RecursionLimit THEN Result(<<>>, c, "RecursionError")
    ELSE IF device_cls \in DOMAIN c THEN Result(c[device_cls], c, "none")
    ELSE
      LET r == IF issubclass(device_cls, Device)
               THEN inspect_cpts(g, device_cls, 1, desired_cls, c, <<>>, depth)
               ELSE Result(<<>>, c, "none")
      IN  IF r.err # "none" THEN r
          ELSE Result(r.attrs, Store(r.cache, device_cls, r.attrs), "none")

(* Walk the instance along a path of attrs (lines 105-107).                *)
RECURSIVE walk(_, _, _)
walk(g, device, attrs) ==
    IF attrs = <<>> THEN device
    ELSE walk(g, getattr_cpt(g, device, Head(attrs)), Tail(attrs))

(* setattr on the IterableNamespace.                                       *)
setattr_ns(ns, name, obj) == Store(ns, name, obj)

RECURSIVE add_subdevices(_, _, _, _, _)
add_subdevices(g, ns, obj, subdevice_attrs, i) ==
    IF i > Len(subdevice_attrs) THEN ns
    ELSE LET device == walk(g, obj, subdevice_attrs[i])
         IN  add_subdevices(g, setattr_ns(ns, device.name, device), obj,
                            subdevice_attrs, i + 1)

(* Lines 90-95: whether the top-level object is included.                  *)
include_always(obj, c) == TRUE

include(obj, c) ==
    IF c.str /\ c.val = "function" THEN isfunction(obj)
    ELSE isinstance(obj, c.val)

-----------------------------------------------------------------------------
(* The scopes: top-level objects under their own name, and objects that    *)
(* sit under the name a sub-device of dA carries.                          *)
dA == Obj("DevA", "dA", "dA")
dB == Obj("DevB", "dB", "dB")

ScopeEntries(g) ==
    {[name |-> "dA", obj |-> dA],
     [name |-> "dB", obj |-> dB],
     [name |-> "fn", obj |-> Obj("function", "fn", "fn")],
     [name |-> "sg", obj |-> Obj("Sig", "sg", "sg")],
     [name |-> "dA_x", obj |-> Obj("SubSig", "other", "other")],
     [name |-> "dA_x", obj |-> Obj("function", "fn", "fn")]}
    \cup
    (IF SlotNamed(g, "DevA", "x").hascls
     THEN {[name |-> "dA_x", obj |-> getattr_cpt(g, dA, "x")]} ELSE {})

UniqueNames(s) == \A i, j \in 1..Len(s) : s[i].name = s[j].name => i = j

Scopes(g) ==
    UNION {{s \in [1..n -> ScopeEntries(g)] : UniqueNames(s)} : n \in 0..MaxScope}

-----------------------------------------------------------------------------
(* class_namespace *)
EmptyNS == [x \in {} |-> x]

(* tree_namespace is not running.                                          *)
IdleTree ==
    /\ objs = <<>>
    /\ heap = EmptyNS
    /\ tree_dict = [order |-> <<>>, leaf |-> EmptyNS]
    /\ tpc = "idle"
    /\ item = 1
    /\ stack = <<>>
    /\ unpacked = EmptyNS
    /\ log = <<>>
    /\ tree_space = "none"
    /\ nsCount = 0
    /\ run = 1
    /\ first = [root |-> "none", heap |-> EmptyNS]

InitClass ==
    /\ IdleTree
    /\ classes \in ClassGraphs
    /\ cls \in Targets
    /\ scope_objs \in Scopes(classes)
    /\ pc = "resolve"
    /\ idx = 1
    /\ cache = EmptyNS
    /\ class_space = EmptyNS
    /\ exc = "none"

(* Lines 41-50: resolve str arguments for cls.                             *)
ResolveCls ==
    /\ pc = "resolve"
    /\ IF cls.str /\ cls.val # "function"
       THEN IF find_class_ok(cls.val)
            THEN /\ cls' = [str |-> FALSE, val |-> find_class(cls.val)]
                 /\ pc' = "loop"
            ELSE /\ pc' = "returned"
                 /\ UNCHANGED cls
       ELSE /\ pc' = "loop"
            /\ UNCHANGED cls
    /\ UNCHANGED <<classes, scope_objs, idx, cache, class_space, exc, tvars>>

(* Lines 88-110: one iteration of the loop over scope_objs.items().        *)
ScopeItem ==
    /\ pc = "loop"
    /\ idx <= Len(scope_objs)
    /\ LET name == scope_objs[idx].name
           obj == scope_objs[idx].obj
           space1 == IF include(obj, cls)
                     THEN setattr_ns(class_space, name, obj)
                     ELSE class_space
       IN  IF isinstance(obj, Device)
           THEN LET r == inspect_device_cls(classes, obj.cls, cls, cache, 1)
                IN  IF r.err # "none"
                    THEN /\ pc' = "raised"
                         /\ exc' = r.err
                         /\ cache' = r.cache
                         /\ class_space' = space1
                         /\ UNCHANGED idx
                    ELSE /\ cache' = r.cache
                         /\ class_space' =
                                add_subdevices(classes, space1, obj, r.attrs, 1)
                         /\ idx' = idx + 1
                         /\ UNCHANGED <<pc, exc>>
           ELSE /\ class_space' = space1
                /\ idx' = idx + 1
                /\ UNCHANGED <<pc, exc, cache>>
    /\ UNCHANGED <<classes, cls, scope_objs, tvars>>

(* Line 112: return class_space.                                           *)
ReturnClassSpace ==
    /\ pc = "loop"
    /\ idx > Len(scope_objs)
    /\ pc' = "returned"
    /\ UNCHANGED <<classes, cls, scope_objs, idx, cache, class_space, exc, tvars>>

NextClass == ResolveCls \/ ScopeItem \/ ReturnClassSpace

SpecClass == InitClass /\ [][NextClass]_vars

-----------------------------------------------------------------------------
(* Properties of class_namespace *)

Returned == pc = "returned"

HoldsUnder(name, obj) == name \in DOMAIN class_space /\ class_space[name] = obj

(* The paths discovered for the class of a Device of the scope.            *)
SurfacedFrom(obj) ==
    IF isinstance(obj, Device) /\ obj.cls \in DOMAIN cache
    THEN {walk(classes, obj, cache[obj.cls][k]) : k \in 1..Len(cache[obj.cls])}
    ELSE {}

(* A class that reaches itself through components that are not skipped.    *)
RECURSIVE Reaches(_, _, _, _)
Reaches(g, c, d, fuel) ==
    /\ fuel > 0
    /\ \E i \in 1..Len(component_names(g, c)) :
          LET cpt == component_names(g, c)[i]
          IN  /\ cpt_selected(cpt)
              /\ \/ cpt.cls = d
                 \/ Reaches(g, cpt.cls, d, fuel - 1)

SelfContaining(g) ==
    \E c \in DeviceClasses : Reaches(g, c, c, Cardinality(DeviceClasses))

(* C1: every entry of the container class_namespace returns has a runtime  *)
(* type that is the target type or a subtype of it, or, under the          *)
(* 'function' sentinel, is a plain function; this covers top-level objects *)
(* and sub-devices reached along discovered paths.                         *)
C1_EntriesSatisfyFilter ==
    Returned =>
        \A n \in DOMAIN class_space :
            IF cls.str
            THEN cls.val = "function" /\ class_space[n].cls = "function"
            ELSE issubclass(class_space[n].cls, cls.val)

C1_Witness ==
    /\ Returned
    /\ ~cls.str
    /\ "dA_x_x" \in DOMAIN class_space
    /\ "dA_y" \in DOMAIN class_space
    /\ "sg" \in DOMAIN class_space
    /\ \E i \in 1..Len(classes.DevA) :
          /\ cpt_selected(classes.DevA[i])
          /\ ~issubclass(classes.DevA[i].cls, cls.val)

Replaced(i) ==
    \E j \in i..Len(scope_objs) :
        \E d \in SurfacedFrom(scope_objs[j].obj) :
            d.name = scope_objs[i].name /\ d # scope_objs[i].obj

C3_ClassNamespaceNeverRaises ==
    ~SelfContaining(classes) => (pc # "raised" /\ exc = "none")

(* C4: discovery over a class that contains itself through components that *)
(* are not skipped detects the repeat visit and returns, so that           *)
(* class_namespace does not end in unbounded recursion.                    *)
C4_RepeatVisitDetected ==
    (SelfContaining(classes) /\ ~cls.str) => exc # "RecursionError"

(* C5: no path in the discovery cache (and so no path discovery returns)   *)
(* goes through a component that is lazy or has no cls, at any position.   *)
RECURSIVE PathSelected(_, _, _)
PathSelected(g, c, path) ==
    \/ path = <<>>
    \/ /\ HasSlot(g, c, Head(path))
       /\ LET cpt == SlotNamed(g, c, Head(path))
          IN  /\ cpt.hascls
              /\ ~cpt.lazy
              /\ PathSelected(g, cpt.cls, Tail(path))

C5_NoLazySlotInPaths ==
    \A c \in DOMAIN cache :
        \A k \in 1..Len(cache[c]) :
            cache[c][k] # <<>> /\ PathSelected(classes, c, cache[c][k])

C5_Witness ==
    /\ Returned
    /\ ~cls.str
    /\ "DevA" \in DOMAIN cache
    /\ cache["DevA"] # <<>>
    /\ \E i \in 1..Len(classes.DevA) :
          LET cpt == classes.DevA[i]
          IN  /\ cpt.lazy
              /\ cpt.cls \in DOMAIN cache
              /\ cache[cpt.cls] # <<>>
    /\ \E i \in 1..Len(classes.DevB) :
          /\ classes.DevB[i].lazy
          /\ issubclass(classes.DevB[i].cls, cls.val)

-----------------------------------------------------------------------------
(* tree_namespace: names are strings, modelled as sequences of characters. *)
Letters == {"a", "s"}
Digits == {"1"}
Keywords == {<<"a", "s">>, <<"i", "s">>, <<"i", "f">>, <<"i", "n">>, <<"o", "r">>}

(* name.split('_')                                                         *)
RECURSIVE split(_)
split(name) ==
    IF \A i \in 1..Len(name) : name[i] # "_" THEN <<name>>
    ELSE LET i == CHOOSE j \in 1..Len(name) :
                      name[j] = "_" /\ \A m \in 1..(j - 1) : name[m] # "_"
         IN  <<SubSeq(name, 1, i - 1)>> \o split(SubSeq(name, i + 1, Len(name)))

iskeyword(key) == key \in Keywords

isidentifier(key) ==
    /\ Len(key) > 0
    /\ key[1] \in Letters \cup {"_"}
    /\ \A i \in 1..Len(key) : key[i] \in Letters \cup Digits \cup {"_"}

(* Lines 144-156: the index of the key at which the loop breaks, or 0.     *)
RECURSIVE first_bad(_, _)
first_bad(keys, i) ==
    IF i > Len(keys) THEN 0
    ELSE IF iskeyword(keys[i]) \/ ~isidentifier(keys[i]) THEN i
    ELSE first_bad(keys, i + 1)

valid_keys(keys) == first_bad(keys, 1) = 0

Range(f) == {f[i] : i \in DOMAIN f}

(* Lines 158-159: curr_dict = curr_dict[key] down the keys; a defaultdict   *)
(* creates the nodes that are missing.                                      *)
RECURSIVE descend(_, _, _)
descend(order, keys, i) ==
    IF i > Len(keys) THEN order
    ELSE LET p == SubSeq(keys, 1, i)
         IN  descend(IF p \in Range(order) THEN order ELSE Append(order, p),
                     keys, i + 1)

(* Lines 158-160; the variant stores the object at every node on the way.  *)
RECURSIVE store_all(_, _, _, _)
store_all(leaf, keys, obj, i) ==
    IF i > Len(keys) THEN leaf
    ELSE store_all(Store(leaf, SubSeq(keys, 1, i), obj), keys, obj, i + 1)

insert_every_node(td, keys, obj) ==
    [order |-> descend(td.order, keys, 1),
     leaf |-> store_all(td.leaf, keys, obj, 1)]

insert(td, keys, obj) ==
    [order |-> descend(td.order, keys, 1), leaf |-> Store(td.leaf, keys, obj)]

(* Lines 141-160: the body of the loop over objs.items().  The variant     *)
(* walks into the tree while it validates.                                 *)
accumulate_name_eager(td, name, obj) ==
    LET keys == split(name)
        bad == first_bad(keys, 1)
    IN  IF bad = 0 THEN insert(td, keys, obj)
        ELSE [order |-> descend(td.order, SubSeq(keys, 1, bad - 1), 1),
              leaf |-> td.leaf]

accumulate_name(td, name, obj) ==
    LET keys == split(name)
    IN  IF valid_keys(keys) THEN insert(td, keys, obj) ELSE td

(* Lines 145-156: the warning of a name that is omitted.                   *)
name_warnings(name) ==
    LET keys == split(name)
        bad == first_bad(keys, 1)
    IN  IF bad = 0 THEN <<>>
        ELSE <<[kind |-> IF iskeyword(keys[bad]) THEN "keyword" ELSE "identifier",
                at |-> keys, key |-> keys[bad], obj |-> "none"]>>

(* node.items(): the child keys of the node at path p, in insertion order. *)
IsChild(p, q) == Len(q) = Len(p) + 1 /\ SubSeq(q, 1, Len(p)) = p

RECURSIVE child_keys(_, _, _)
child_keys(order, p, i) ==
    IF i > Len(order) THEN <<>>
    ELSE (IF IsChild(p, order[i]) THEN <<order[i][Len(order[i])]>> ELSE <<>>)
            \o child_keys(order, p, i + 1)

(* The objects of the mapping: X takes attributes, Y takes attributes and  *)
(* natively has an attribute s, P is a primitive that rejects setattr and  *)
(* natively has an attribute s; N is the value of the native attributes.   *)
LeafObjects == {"X", "Y", "P"}
Objects == LeafObjects \cup {"N"}
NoneObj == "None"

NativeAttrs(o) ==
    IF o \in {"Y", "P"} THEN [key \in {<<"s">>} |-> "N"] ELSE EmptyNS

InitHeap == [o \in Objects |-> NativeAttrs(o)]

(* setattr raises AttributeError on a primitive.                           *)
rejects_setattr(o) == o = "P"

(* hasattr(obj, key); the variant never sees an attribute.                 *)
hasattr_never(h, obj, key) == FALSE

hasattr(h, obj, key) == key \in DOMAIN h[obj]

setattr(h, obj, key, value) == [h EXCEPT ![obj] = Store(h[obj], key, value)]

(* IterableNamespace(): a fresh object without attributes.                 *)
NamespaceId(n) == "ns" \o ToString(n)
IsNamespace(v) == v \notin Objects /\ v # NoneObj /\ v # "none"

(* Lines 164-166: obj = node.pop('_obj', None), a namespace when None.     *)
node_obj(td, p, n) ==
    IF p \in DOMAIN td.leaf /\ td.leaf[p] # NoneObj
    THEN td.leaf[p] ELSE NamespaceId(n + 1)

Frame(td, p, n) ==
    [path |-> p, obj |-> node_obj(td, p, n), keys |-> child_keys(td.order, p, 1)]

(* Lines 174-181: setattr(obj, key, sub_node), on a fresh namespace when   *)
(* obj rejects it.  The variant does not repeat the setattr.               *)
attach_no_retry(h, n, obj, key, sub_node) ==
    IF rejects_setattr(obj)
    THEN [heap |-> Store(h, NamespaceId(n + 1), EmptyNS),
          obj |-> NamespaceId(n + 1), n |-> n + 1, failed |-> TRUE]
    ELSE [heap |-> setattr(h, obj, key, sub_node), obj |-> obj, n |-> n,
          failed |-> FALSE]

attach(h, n, obj, key, sub_node) ==
    IF rejects_setattr(obj)
    THEN [heap |-> setattr(Store(h, NamespaceId(n + 1), EmptyNS),
                           NamespaceId(n + 1), key, sub_node),
          obj |-> NamespaceId(n + 1), n |-> n + 1, failed |-> TRUE]
    ELSE [heap |-> setattr(h, obj, key, sub_node), obj |-> obj, n |-> n,
          failed |-> FALSE]

-----------------------------------------------------------------------------
(* The mappings given to tree_namespace.                                   *)
Names ==
    {<<"a">>,
     <<"a", "_", "s">>,
     <<"a", "_", "s", "_", "a">>,
     <<"a", "_", "a">>,
     <<"s">>,
     <<"s", "_", "a">>,
     <<"s", "_", "a", "s">>,
     <<"a", "_", "1">>,
     <<"a", "_", "_", "s">>}

Items == [name : Names, obj : LeafObjects \cup {NoneObj}]

(* Longer mappings over the names that nest and share segments.            *)
CoreNames ==
    {<<"a">>,
     <<"s">>,
     <<"a", "_", "s">>,
     <<"a", "_", "a">>,
     <<"s", "_", "a">>}

CoreItems == [name : CoreNames, obj : LeafObjects]

Mappings ==
    UNION {{m \in [1..n -> Items] : UniqueNames(m)} : n \in 0..MaxNames}
    \cup {m \in [1..(MaxNames + 1) -> CoreItems] : UniqueNames(m)}

IdleClass ==
    /\ classes = [DevA |-> <<>>, DevB |-> <<>>]
    /\ cls = [str |-> FALSE, val |-> "object"]
    /\ scope_objs = <<>>
    /\ pc = "idle"
    /\ idx = 1
    /\ cache = EmptyNS
    /\ class_space = EmptyNS
    /\ exc = "none"

EmptyTree == [order |-> <<>>, leaf |-> EmptyNS]

InitTree ==
    /\ IdleClass
    /\ objs \in Mappings
    /\ heap = InitHeap
    /\ tree_dict = EmptyTree
    /\ tpc = "accumulate"
    /\ item = 1
    /\ stack = <<>>
    /\ unpacked = EmptyNS
    /\ log = <<>>
    /\ tree_space = "none"
    /\ nsCount = 0
    /\ run = 1
    /\ first = [root |-> "none", heap |-> EmptyNS]

Top == stack[Len(stack)]

(* The heap and the counter after node_obj created its namespace, if any.  *)
HeapWith(v) == IF v \in DOMAIN heap THEN heap ELSE Store(heap, v, EmptyNS)
CountWith(v) == IF v \in DOMAIN heap THEN nsCount ELSE nsCount + 1

(* Lines 140-160: one item of objs.items().                                *)
Accumulate ==
    /\ tpc = "accumulate"
    /\ item <= Len(objs)
    /\ tree_dict' = accumulate_name(tree_dict, objs[item].name, objs[item].obj)
    /\ log' = log \o name_warnings(objs[item].name)
    /\ item' = item + 1
    /\ UNCHANGED <<objs, heap, tpc, stack, unpacked, tree_space, nsCount, run,
                   first, cvars>>

(* Line 184 and lines 164-166: unpack_node(tree_dict) is entered.          *)
StartUnpack ==
    /\ tpc = "accumulate"
    /\ item > Len(objs)
    /\ LET f == Frame(tree_dict, <<>>, nsCount)
       IN  /\ stack' = <<f>>
           /\ heap' = HeapWith(f.obj)
           /\ nsCount' = CountWith(f.obj)
    /\ tpc' = "unpack"
    /\ UNCHANGED <<objs, tree_dict, item, unpacked, log, tree_space, run, first,
                   cvars>>

(* Lines 167-171: the container already has the attribute: the child is    *)
(* skipped with a warning.  The variant handles the conflict like a        *)
(* container that rejects setattr: it goes on with a fresh namespace.      *)
UnpackConflictReplaces ==
    /\ tpc = "unpack"
    /\ Top.keys # <<>>
    /\ hasattr(heap, Top.obj, Head(Top.keys))
    /\ log' = Append(log, [kind |-> "overwrite", at |-> Top.path,
                           key |-> Head(Top.keys), obj |-> Top.obj])
    /\ stack' = [stack EXCEPT ![Len(stack)].obj = NamespaceId(nsCount + 1)]
    /\ heap' = Store(heap, NamespaceId(nsCount + 1), EmptyNS)
    /\ nsCount' = nsCount + 1
    /\ UNCHANGED <<objs, tree_dict, tpc, item, unpacked, tree_space, run, first,
                   cvars>>

UnpackConflict ==
    /\ tpc = "unpack"
    /\ Top.keys # <<>>
    /\ hasattr(heap, Top.obj, Head(Top.keys))
    /\ log' = Append(log, [kind |-> "overwrite", at |-> Top.path,
                           key |-> Head(Top.keys), obj |-> Top.obj])
    /\ stack' = [stack EXCEPT ![Len(stack)].keys = Tail(@)]
    /\ UNCHANGED <<objs, heap, tree_dict, tpc, item, unpacked, tree_space, nsCount,
                   run, first, cvars>>

(* Line 173 and lines 164-166: unpack_node(value) is entered for a child.  *)
UnpackDescend ==
    /\ tpc = "unpack"
    /\ Top.keys # <<>>
    /\ ~hasattr(heap, Top.obj, Head(Top.keys))
    /\ LET f == Frame(tree_dict, Append(Top.path, Head(Top.keys)), nsCount)
       IN  /\ stack' = Append(stack, f)
           /\ heap' = HeapWith(f.obj)
           /\ nsCount' = CountWith(f.obj)
    /\ UNCHANGED <<objs, tree_dict, tpc, item, unpacked, log, tree_space, run,
                   first, cvars>>

(* Line 182 in the child and lines 174-181 in its caller.                  *)
UnpackReturn ==
    /\ tpc = "unpack"
    /\ Len(stack) > 1
    /\ Top.keys = <<>>
    /\ LET caller == stack[Len(stack) - 1]
           r == attach(heap, nsCount, caller.obj, Head(caller.keys), Top.obj)
       IN  /\ heap' = r.heap
           /\ nsCount' = r.n
           /\ stack' = [SubSeq(stack, 1, Len(stack) - 1) EXCEPT
                           ![Len(stack) - 1] =
                               [path |-> caller.path, obj |-> r.obj,
                                keys |-> Tail(caller.keys)]]
           /\ log' = IF r.failed
                     THEN Append(log, [kind |-> "not_valid_node",
                                       at |-> caller.path,
                                       key |-> Head(caller.keys),
                                       obj |-> caller.obj])
                     ELSE log
    /\ unpacked' = Store(unpacked, Top.path, Top.obj)
    /\ UNCHANGED <<objs, tree_dict, tpc, item, tree_space, run, first, cvars>>

(* Line 182 in the root call and lines 184-187.                            *)
UnpackFinish ==
    /\ tpc = "unpack"
    /\ Len(stack) = 1
    /\ Top.keys = <<>>
    /\ tree_space' = Top.obj
    /\ unpacked' = Store(unpacked, Top.path, Top.obj)
    /\ stack' = <<>>
    /\ tpc' = "done"
    /\ UNCHANGED <<objs, heap, tree_dict, item, log, nsCount, run, first, cvars>>

(* tree_namespace is called a second time with the same objs.              *)
Rebuild ==
    /\ tpc = "done"
    /\ run = 1
    /\ first' = [root |-> tree_space, heap |-> heap]
    /\ run' = 2
    /\ tree_dict' = EmptyTree
    /\ item' = 1
    /\ unpacked' = EmptyNS
    /\ log' = <<>>
    /\ tree_space' = "none"
    /\ tpc' = "accumulate"
    /\ UNCHANGED <<objs, heap, stack, nsCount, cvars>>

NextTree ==
    \/ Accumulate
    \/ StartUnpack
    \/ UnpackConflict
    \/ UnpackDescend
    \/ UnpackReturn
    \/ UnpackFinish
    \/ Rebuild

SpecTree == InitTree /\ [][NextTree]_vars

-----------------------------------------------------------------------------
(* Properties of tree_namespace *)

Done == tpc = "done"

IsPrefix(p, q) == Len(p) <= Len(q) /\ SubSeq(q, 1, Len(p)) = p

(* Every underscore-split segment is an identifier and no keyword.         *)
ValidName(name) ==
    \A j \in 1..Len(split(name)) :
        isidentifier(split(name)[j]) /\ ~iskeyword(split(name)[j])

(* getattr along the keys, from value v; "none" where an attribute is      *)
(* missing.                                                                *)
RECURSIVE Follow(_, _, _)
Follow(h, v, keys) ==
    IF keys = <<>> THEN v
    ELSE IF v \in DOMAIN h /\ Head(keys) \in DOMAIN h[v]
    THEN Follow(h, h[v][Head(keys)], Tail(keys))
    ELSE "none"

Logged(kind, at, key) ==
    \E e \in Range(log) : e.kind = kind /\ e.at = at /\ e.key = key

SkippedOnPath(keys) ==
    \E j \in 0..(Len(keys) - 1) :
        Logged("overwrite", SubSeq(keys, 1, j), keys[j + 1])

(* The object at the keys was replaced by a namespace while a child was    *)
(* attached to it.                                                         *)
ReplacedAt(keys) ==
    \E e \in Range(log) : e.kind = "not_valid_node" /\ e.at = keys

RECURSIVE TreeOfValid(_, _)
TreeOfValid(m, n) ==
    IF n = 0 THEN EmptyTree
    ELSE IF ValidName(m[n].name)
    THEN insert(TreeOfValid(m, n - 1), split(m[n].name), m[n].obj)
    ELSE TreeOfValid(m, n - 1)

(* C7: a name with a keyword or non-identifier segment leaves no trace:    *)
(* the nested dict holds exactly the nodes and objects of the valid names  *)
(* scanned so far, as if the invalid names were not in the mapping.        *)
C7_InvalidNamesLeaveNoTrace ==
    tpc \in {"accumulate", "done"} =>
        tree_dict = TreeOfValid(objs, item - 1)

C7_Witness ==
    /\ Done
    /\ tree_dict.order # <<>>
    /\ \E i \in 1..Len(objs) :
          /\ first_bad(split(objs[i].name), 1) > 1
          /\ <<split(objs[i].name)[1]>> \notin Range(tree_dict.order)

(* C8: an attribute an object already has is never overwritten; a child    *)
(* whose key the container already has is skipped without being unpacked,  *)
(* and the build goes on with the next child.                              *)
AttributesKept ==
    \A o \in DOMAIN heap :
        \A key \in DOMAIN heap[o] :
            /\ o \in DOMAIN heap'
            /\ key \in DOMAIN heap'[o]
            /\ heap'[o][key] = heap[o][key]

ConflictAtTop ==
    /\ tpc = "unpack"
    /\ stack # <<>>
    /\ Top.keys # <<>>
    /\ Head(Top.keys) \in DOMAIN heap[Top.obj]

ConflictSkipped ==
    /\ heap' = heap
    /\ tpc' = "unpack"
    /\ Len(stack') = Len(stack)
    /\ stack'[Len(stack)].obj = Top.obj
    /\ stack'[Len(stack)].keys = Tail(Top.keys)
    /\ \A p \in DOMAIN unpacked' :
          ~IsPrefix(Append(Top.path, Head(Top.keys)), p)

PrimitiveNodes ==
    {p \in DOMAIN unpacked :
        /\ p \in DOMAIN tree_dict.leaf
        /\ rejects_setattr(tree_dict.leaf[p])
        /\ child_keys(tree_dict.order, p, 1) # <<>>}

Attached(p, key) ==
    /\ Append(p, key) \in DOMAIN unpacked
    /\ key \in DOMAIN heap[unpacked[p]]
    /\ heap[unpacked[p]][key] = unpacked[Append(p, key)]

(* C9 (as stated): a node with a primitive and child keys yields a         *)
(* synthesized namespace to which every child is attached.                 *)
C9_PrimitiveReplaced ==
    Done =>
      \A p \in PrimitiveNodes :
        /\ IsNamespace(unpacked[p])
        /\ \A j \in 1..Len(child_keys(tree_dict.order, p, 1)) :
              Attached(p, child_keys(tree_dict.order, p, 1)[j])

(* C9 (amended): a node with a primitive and child keys keeps the          *)
(* primitive if the primitive natively has an attribute for every child    *)
(* key; otherwise it yields a fresh namespace that replaces the primitive   *)
(* and holds exactly the children from the first key the primitive does    *)
(* not have onward, the earlier ones being skipped as conflicts.           *)
C9_PrimitiveReplacedUnlessNative ==
    Done =>
      \A p \in PrimitiveNodes :
        LET keys == child_keys(tree_dict.order, p, 1)
            prim == tree_dict.leaf[p]
            free == {j \in 1..Len(keys) : keys[j] \notin DOMAIN NativeAttrs(prim)}
        IN  IF free = {}
            THEN unpacked[p] = prim
            ELSE LET j0 == CHOOSE j \in free : \A m \in free : j <= m
                 IN  /\ IsNamespace(unpacked[p])
                     /\ unpacked[p] \notin DOMAIN first.heap
                     /\ \A j \in 1..Len(keys) :
                           IF j >= j0 THEN Attached(p, keys[j])
                           ELSE keys[j] \notin DOMAIN heap[unpacked[p]]

C9_Witness ==
    /\ Done
    /\ run = 1
    /\ \E i, j \in 1..Len(objs) :
          /\ objs[i].name = <<"a", "_", "s">>
          /\ objs[i].obj = "P"
          /\ objs[j].name = <<"a", "_", "s", "_", "a">>
          /\ objs[j].obj = "X"
          /\ IsNamespace(Follow(heap, tree_space, <<<<"a">>, <<"s">>>>))
          /\ Follow(heap, tree_space, <<<<"a">>, <<"s">>, <<"a">>>>) = "X"

(* Two trees agree down to depth d: the same attribute names at every      *)
(* path, and wherever one holds an object of the mapping the other holds   *)
(* the same object.                                                        *)
LongestName == CHOOSE n \in {Len(split(name)) : name \in Names} :
                   \A name \in Names : Len(split(name)) <= n

CompareDepth == LongestName + 2

RECURSIVE TreesAgree(_, _, _, _, _)
TreesAgree(h1, v1, h2, v2, d) ==
    \/ d = 0
    \/ /\ (~IsNamespace(v1) \/ ~IsNamespace(v2)) => v1 = v2
       /\ DOMAIN h1[v1] = DOMAIN h2[v2]
       /\ \A key \in DOMAIN h1[v1] :
             TreesAgree(h1, h1[v1][key], h2, h2[v2][key], d - 1)

(* C10: the second call on the same mapping returns a tree with the same   *)
(* attribute names at every path and the identical object of the mapping   *)
(* at every path as the first call returned.                               *)
C10_RebuildAgrees ==
    (Done /\ run = 2) =>
        TreesAgree(first.heap, first.root, heap, tree_space, CompareDepth)

C10_Witness ==
    /\ Done
    /\ run = 2
    /\ tree_space # first.root
    /\ \E e \in Range(log) :
          /\ e.kind = "overwrite"
          /\ e.obj \in LeafObjects
          /\ e.key \notin DOMAIN NativeAttrs(e.obj)
          /\ IsNamespace(heap[e.obj][e.key])

====
